---- MODULE Spec2Model ----
(***************************************************************************)
(* at-urls-log-stats: the discovery reconciler (dispatcher), the container *)
(* watchers and the metric store, as a state machine.                      *)
(*                                                                         *)
(* Time is counted in whole seconds.  Every Instant the program stores is  *)
(* kept as the number of seconds elapsed since it was taken (its age), and *)
(* every pending sleep as the number of seconds left on it, so that        *)
(* now.duration_since(x) is the age of x.  Timers are ideal: a sleep that  *)
(* has run out fires before time advances further, a task that was        *)
(* spawned is polled for the first time within the second, and a record    *)
(* call that has started returns or is dropped within the second: the      *)
(* write lock is held for short critical sections only and is handed over  *)
(* in order.                                                               *)
(*                                                                         *)
(* tokio's select! polls its branches within one poll of the task: when a  *)
(* select! is entered with the token already cancelled, the other branch   *)
(* (a fresh sleep, a request that was not sent yet) is still pending and   *)
(* is dropped, so the cancelled branch is the one taken.  When the token   *)
(* is cancelled while the task is suspended in the select!, either branch  *)
(* that is ready may be taken.                                             *)
(***************************************************************************)
EXTENDS Integers, Sequences, FiniteSets, TLC

\* ---------------------------------------------------------------- bounds
\* largest value a counter is driven to
MaxCount == 2
\* longest container list a discovery response holds
MaxList == 2

\* ------------------------------------------------------ program constants
CLEANUP_INTERVAL_SECS == 10
CLEANUP_ENTRY_TTL_SECS == 60
POLL_SECS == 60
POLL_RETRY_SECS == 10
BACKOFF_SECS == 1
U16_MAX == 65535

\* ages saturate one second past the oldest age a swept entry can reach
AgeCap == CLEANUP_ENTRY_TTL_SECS + CLEANUP_INTERVAL_SECS + 1

VARIABLES
    cancel,            \* the root CancellationToken (main.rs:56)
    domain_requests,   \* Family<RequestLabel, Counter>: label -> count
    domain_last_seen,  \* HashMap<RequestLabel, Instant>: label -> age in seconds
    cleanup_timer,     \* seconds left on periodic_cleanup's sleep
    dpc,               \* where the dispatcher task is
    containers,        \* dispatcher's HashMap<String, ContainerWatcher>: id -> task
    to_remove,         \* ids the dispatcher still has to stop (or to join at drain)
    awaiting,          \* the task whose JoinHandle the dispatcher awaits (0: none)
    sleep_duration,    \* dispatcher's sleep_duration local
    dtimer,            \* seconds left on the dispatcher's sleep
    alive,             \* the alive set of the last successful discovery call
    tasks,             \* spawned watcher tasks not joined yet: task -> record
    lastPoll,          \* history: outcome of the last discovery call
    made,              \* history: record calls started per label since its last eviction
    evicted,           \* history, per label: "no", "yes" once a sweep evicted it, and
                       \* "recorded" once a record call started after that
    main_pc,           \* where main is: "load", "ctrl_c", "join", "exit0", "exit1"
    serve_pc,          \* the Metrics::serve task: "bind", "serving", "panicked",
                       \* "returned"; "none" before it is spawned, "dropped" at exit
    cleanup_pc         \* the Metrics::periodic_cleanup task: "loop"; "none" before it
                       \* is spawned, "dropped" at exit

vars == <<cancel, domain_requests, domain_last_seen, cleanup_timer, dpc, containers,
          to_remove, awaiting, sleep_duration, dtimer, alive, tasks,
          lastPoll, made, evicted, main_pc, serve_pc, cleanup_pc>>

storeVars == <<domain_requests, domain_last_seen, made, evicted>>
dispVars == <<dpc, containers, to_remove, awaiting, sleep_duration, dtimer,
              alive, lastPoll>>
procVars == <<main_pc, serve_pc, cleanup_pc>>

\* ------------------------------------------------------------ finite maps
Empty == <<>>

Put(m, k, v) == [x \in DOMAIN m \cup {k} |-> IF x = k THEN v ELSE m[x]]

Remove(m, k) == [x \in DOMAIN m \ {k} |-> m[x]]

Min(a, b) == IF a <= b THEN a ELSE b

\* ------------------------------------------------------------ the inputs
Ids == {"c1", "c2"}

\* an image reference, split at its ':' separators: "foo", "foo:latest", "bar",
\* "registry:5000/foo" and "registry:5000/foo:v1"
ImageRefs ==
    { <<"foo">>, <<"foo", "latest">>, <<"bar">>,
      <<"registry", "5000/foo">>, <<"registry", "5000/foo", "v1">> }

\* Config.docker_images: "foo", "registry:5000/foo" and "foo" once more
docker_images == << <<"foo">>, <<"registry", "5000/foo">>, <<"foo">> >>

DockerContainers == [id : Ids, image : ImageRefs]

Labels == { <<"example.com", 200>>, <<"example.org", 404>> }

\* a log line as the regex sees it: whether it matches, the number its status
\* capture spells, whether the domain capture is valid UTF-8, and the domain
NoMatchLine == [match |-> FALSE, status |-> 0, utf8 |-> TRUE, domain |-> ""]
LabelLine(l) == [match |-> TRUE, status |-> l[2], utf8 |-> TRUE, domain |-> l[1]]
BadStatusLine == [match |-> TRUE, status |-> 70000, utf8 |-> TRUE, domain |-> "example.com"]
BadDomainLine == [match |-> TRUE, status |-> 200, utf8 |-> FALSE, domain |-> "example.com"]

LogLines == {NoMatchLine, BadStatusLine, BadDomainLine} \cup {LabelLine(l) : l \in Labels}

\* ------------------------------------------------------------ metric store
NoLabel == <<"", 0>>

Count(l) == IF l \in DOMAIN domain_requests THEN domain_requests[l] ELSE 0

\* Family::get_or_create always starting a fresh counter: mutant of get_or_create
get_or_create_fresh(fam, l) == Put(fam, l, 0)

\* Family::get_or_create(&label), atomic for concurrent identical labels
get_or_create(fam, l) == IF l \in DOMAIN fam THEN fam ELSE Put(fam, l, 0)

\* Counter::inc()
inc(fam, l) == [fam EXCEPT ![l] = @ + 1]

\* a too lenient staleness test: mutant of Stale
StaleLate(age) == age > CLEANUP_ENTRY_TTL_SECS + CLEANUP_INTERVAL_SECS

\* now.duration_since(*last_seen) > ttl
Stale(age) == age > CLEANUP_ENTRY_TTL_SECS

\* the labels the retain closure of a sweep drops
StaleLabels(seen) == {l \in DOMAIN seen : Stale(seen[l])}

\* a sweep that leaves the counters of the dropped labels: mutant of RemoveRequests
RemoveNothing(fam, stale) == fam

\* self.domain_requests.remove(&label) for every dropped label
RemoveRequests(fam, stale) == [l \in DOMAIN fam \ stale |-> fam[l]]

\* a retain that drops no timestamp: mutant of Retain
RetainEverything(seen, stale) == seen

\* last_seen.retain(..)
Retain(seen, stale) == [l \in DOMAIN seen \ stale |-> seen[l]]

\* the Instant::now() a record call stores has age 0
Touch(seen, l) == Put(seen, l, 0)

\* the metrics handler's rendering of the registry: the (label, count) pairs
snapshot == {<<l, domain_requests[l]>> : l \in DOMAIN domain_requests}

\* one iteration of periodic_cleanup: its select! ends when the sleep has run out
\* or the root token is cancelled, then the sweep runs under the write lock
Sweep ==
    /\ cleanup_pc = "loop"
    /\ cleanup_timer = 0 \/ cancel
    /\ LET stale == StaleLabels(domain_last_seen)
       IN /\ domain_last_seen' = Retain(domain_last_seen, stale)
          /\ domain_requests' = RemoveRequests(domain_requests, stale)
          /\ made' = [l \in Labels |-> IF l \in stale THEN 0 ELSE made[l]]
          /\ evicted' = [l \in Labels |-> IF l \in stale THEN "yes" ELSE evicted[l]]
    /\ cleanup_timer' = CLEANUP_INTERVAL_SECS
    /\ UNCHANGED <<cancel, dispVars, tasks, procVars>>

\* ---------------------------------------------------------------- watchers
\* since: whether the since= timestamp of the task's uri is the present second
\* ("now") or an earlier one ("past")
NewWatcher(id) ==
    [id |-> id, pc |-> "start", cancel |-> FALSE, label |-> NoLabel, timer |-> 0,
     since |-> "now"]

Stopped(w) == [w EXCEPT !.pc = "stopped", !.label = NoLabel, !.timer = 0, !.since = "now"]

\* a loop head that does not look at the token: mutant of EnterStreaming
EnterStreamingUnchecked(w) == [w EXCEPT !.pc = "opening", !.timer = 0]

\* the head of the watcher's loop: select! on the token and the request
EnterStreaming(w) ==
    IF w.cancel THEN Stopped(w) ELSE [w EXCEPT !.pc = "opening", !.timer = 0]

\* a stream failure that ends the watcher: mutant of EnterBackoff
EnterBackoffGiveUp(w) == Stopped(w)

\* the select! after the stream ended: the token or the backoff sleep
EnterBackoff(w) ==
    IF w.cancel THEN Stopped(w) ELSE [w EXCEPT !.pc = "backoff", !.timer = BACKOFF_SECS]

\* u16::from_str on the status capture
ParseU16(n) == IF n <= U16_MAX THEN n ELSE -1

\* what a line makes the read loop record: a label, or NoLabel when it is dropped
Extract(line) ==
    IF ~line.match THEN NoLabel
    ELSE IF ParseU16(line.status) < 0 THEN NoLabel
    ELSE IF ~line.utf8 THEN NoLabel
    ELSE <<line.domain, ParseU16(line.status)>>

Running(n) == n \in DOMAIN tasks /\ tasks[n].pc # "stopped"

\* first poll of a spawned watcher task: the uri is formatted with since = now, once,
\* and the loop is entered
WStart(n) ==
    /\ n \in DOMAIN tasks /\ tasks[n].pc = "start"
    /\ tasks' = [tasks EXCEPT ![n] = EnterStreaming([@ EXCEPT !.since = "now"])]
    /\ UNCHANGED <<cancel, storeVars, cleanup_timer, dispVars, procVars>>

\* the log request answers 200: the stream is read from now on
WOpenOk(n) ==
    /\ n \in DOMAIN tasks /\ tasks[n].pc = "opening"
    /\ tasks' = [tasks EXCEPT ![n].pc = "reading"]
    /\ UNCHANGED <<cancel, storeVars, cleanup_timer, dispVars, procVars>>

\* the log request fails or answers another status
WOpenErr(n) ==
    /\ n \in DOMAIN tasks /\ tasks[n].pc = "opening"
    /\ tasks' = [tasks EXCEPT ![n] = EnterBackoff(@)]
    /\ UNCHANGED <<cancel, storeVars, cleanup_timer, dispVars, procVars>>

\* a line that is read and dropped
WDrop(n, line) ==
    /\ n \in DOMAIN tasks /\ tasks[n].pc = "reading"
    /\ Extract(line) = NoLabel
    /\ UNCHANGED vars

\* a line that is read and recorded: Metrics::request up to its lock().await
RecordInc(n, line) ==
    /\ n \in DOMAIN tasks /\ tasks[n].pc = "reading"
    /\ Extract(line) # NoLabel
    /\ LET l == Extract(line)
       IN /\ Count(l) < MaxCount
          /\ domain_requests' = inc(get_or_create(domain_requests, l), l)
          /\ made' = [made EXCEPT ![l] = @ + 1]
          /\ evicted' = [evicted EXCEPT ![l] = IF @ = "no" THEN "no" ELSE "recorded"]
          /\ tasks' = [tasks EXCEPT ![n].pc = "recording", ![n].label = l]
    /\ UNCHANGED <<cancel, domain_last_seen, cleanup_timer, dispVars, procVars>>

\* Metrics::request from the write lock on: the timestamp, then back to the read loop
RecordStamp(n) ==
    /\ n \in DOMAIN tasks /\ tasks[n].pc = "recording"
    /\ domain_last_seen' = Touch(domain_last_seen, tasks[n].label)
    /\ tasks' = [tasks EXCEPT ![n].pc = "reading", ![n].label = NoLabel]
    /\ UNCHANGED <<cancel, domain_requests, made, evicted, cleanup_timer, dispVars,
                   procVars>>

\* end of stream, or a read error
WStreamEnd(n) ==
    /\ n \in DOMAIN tasks /\ tasks[n].pc = "reading"
    /\ tasks' = [tasks EXCEPT ![n] = EnterBackoff(@)]
    /\ UNCHANGED <<cancel, storeVars, cleanup_timer, dispVars, procVars>>

\* the backoff sleep has run out
WBackoffDone(n) ==
    /\ n \in DOMAIN tasks /\ tasks[n].pc = "backoff" /\ tasks[n].timer = 0
    /\ tasks' = [tasks EXCEPT ![n] = EnterStreaming(@)]
    /\ UNCHANGED <<cancel, storeVars, cleanup_timer, dispVars, procVars>>

\* the cancelled branch of either select!, taken while the task is suspended in
\* the request, in a read, in the lock().await of a record call, or in the backoff
WCancelled(n) ==
    /\ n \in DOMAIN tasks
    /\ tasks[n].pc \in {"opening", "reading", "recording", "backoff"}
    /\ tasks[n].cancel
    /\ tasks' = [tasks EXCEPT ![n] = Stopped(@)]
    /\ UNCHANGED <<cancel, storeVars, cleanup_timer, dispVars, procVars>>

\* -------------------------------------------------------------- dispatcher
\* container.image.rsplit_once(":").unwrap_or((&container.image, "")).0
StripTag(image) == IF Len(image) >= 2 THEN SubSeq(image, 1, Len(image) - 1) ELSE image

\* an image filter that compares the reference with its tag: mutant of Found
FoundTagged(image) == \E i \in 1..Len(docker_images) : docker_images[i] = image

\* the search of config.docker_images for the stripped image
Found(image) == \E i \in 1..Len(docker_images) : docker_images[i] = StripTag(image)

\* a membership test that never finds the id: mutant of ContainsKey
ContainsKeyNever(cs, id) == FALSE

\* containers.contains_key(&container.id)
ContainsKey(cs, id) == id \in DOMAIN cs

\* the smallest task number not in use
FreshTask(ts) == CHOOSE n \in 1..(Cardinality(DOMAIN ts) + 1) : n \notin DOMAIN ts

\* the loop over the response: a watcher is spawned and inserted for every matching
\* container whose id is not a key of the map yet
RECURSIVE Reconcile(_, _, _, _)
Reconcile(list, i, cs, ts) ==
    IF i > Len(list) THEN [cs |-> cs, ts |-> ts]
    ELSE IF ~Found(list[i].image) THEN Reconcile(list, i + 1, cs, ts)
    ELSE IF ContainsKey(cs, list[i].id) THEN Reconcile(list, i + 1, cs, ts)
    ELSE Reconcile(list, i + 1,
                   Put(cs, list[i].id, FreshTask(ts)),
                   Put(ts, FreshTask(ts), NewWatcher(list[i].id)))

\* the alive set the loop collects
Alive(list) == {list[i].id : i \in {j \in 1..Len(list) : Found(list[j].image)}}

\* a join that does not wait for the task: mutant of Finished
FinishedAtOnce(ts, n) == TRUE

\* container.task.await returns once the task has returned
Finished(ts, n) == n \in DOMAIN ts => ts[n].pc = "stopped"

\* a task leaves the table when it has returned and its handle is given up
Reap(ts, n) == IF n \in DOMAIN ts /\ ts[n].pc = "stopped" THEN Remove(ts, n) ELSE ts

\* container.cancel.cancel() for every tracked container
CancelAll(cs, ts) ==
    [n \in DOMAIN ts |->
        IF \E id \in DOMAIN cs : cs[id] = n THEN [ts[n] EXCEPT !.cancel = TRUE] ELSE ts[n]]

\* a failed poll that keeps the delay it had: mutant of FailureDelay
FailureDelayKept(sd) == sd

\* sleep_duration after a failed discovery call
FailureDelay(sd) == POLL_RETRY_SECS

\* a removal that cancels every tracked watcher: mutant of StopOne
StopEvery(cs, ts, rm, id) ==
    /\ containers' = Remove(cs, id)
    /\ tasks' = CancelAll(cs, ts)
    /\ awaiting' = cs[id]
    /\ to_remove' = rm \ {id}
    /\ dpc' = "join"
    /\ dtimer' = 0

\* containers.remove(&id), container.cancel.cancel(), then container.task.await
StopOne(cs, ts, rm, id) ==
    /\ containers' = Remove(cs, id)
    /\ tasks' = [ts EXCEPT ![cs[id]].cancel = TRUE]
    /\ awaiting' = cs[id]
    /\ to_remove' = rm \ {id}
    /\ dpc' = "join"
    /\ dtimer' = 0

\* after the loop: every tracked watcher is cancelled, then they are awaited in turn
Drain(cs, ts) ==
    /\ tasks' = CancelAll(cs, ts)
    /\ to_remove' = {}
    /\ dtimer' = 0
    /\ IF DOMAIN cs = {}
       THEN dpc' = "done" /\ containers' = cs /\ awaiting' = 0
       ELSE \E id \in DOMAIN cs :
                dpc' = "drain" /\ containers' = Remove(cs, id) /\ awaiting' = cs[id]

\* the select! on the token and sleep(sleep_duration)
AfterPoll(cs, ts, sd) ==
    IF cancel THEN Drain(cs, ts)
    ELSE /\ dpc' = "sleep" /\ dtimer' = sd
         /\ containers' = cs /\ tasks' = ts /\ to_remove' = {} /\ awaiting' = 0

\* list_containers answers: the Ok arm up to its first task.await, or all of it
DispListOk(list) ==
    /\ dpc = "list"
    /\ alive' = Alive(list)
    /\ lastPoll' = "ok"
    /\ LET r == Reconcile(list, 1, containers, tasks)
           rm == {id \in DOMAIN r.cs : id \notin Alive(list)}
       IN IF rm = {} THEN AfterPoll(r.cs, r.ts, sleep_duration)
          ELSE \E id \in rm : StopOne(r.cs, r.ts, rm, id)
    /\ UNCHANGED <<cancel, storeVars, cleanup_timer, sleep_duration, procVars>>

\* list_containers fails: the Err arm
DispListErr ==
    /\ dpc = "list"
    /\ lastPoll' = "err"
    /\ sleep_duration' = FailureDelay(sleep_duration)
    /\ AfterPoll(containers, tasks, FailureDelay(sleep_duration))
    /\ UNCHANGED <<cancel, storeVars, cleanup_timer, alive, procVars>>

\* the token is cancelled while list_containers is in flight
DispCancelledAtList ==
    /\ dpc = "list" /\ cancel
    /\ Drain(containers, tasks)
    /\ UNCHANGED <<cancel, storeVars, cleanup_timer, sleep_duration, alive, lastPoll,
                   procVars>>

\* the awaited watcher has returned: the next removal, or the end of the Ok arm
DispJoined ==
    /\ dpc = "join"
    /\ Finished(tasks, awaiting)
    /\ IF to_remove = {} THEN AfterPoll(containers, Reap(tasks, awaiting), sleep_duration)
       ELSE \E id \in to_remove : StopOne(containers, Reap(tasks, awaiting), to_remove, id)
    /\ UNCHANGED <<cancel, storeVars, cleanup_timer, sleep_duration, alive, lastPoll,
                   procVars>>

\* the sleep has run out: the next turn of the loop
DispSleepDone ==
    /\ dpc = "sleep" /\ dtimer = 0
    /\ sleep_duration' = POLL_SECS
    /\ IF cancel THEN Drain(containers, tasks)
       ELSE /\ dpc' = "list"
            /\ UNCHANGED <<containers, tasks, to_remove, awaiting, dtimer>>
    /\ UNCHANGED <<cancel, storeVars, cleanup_timer, alive, lastPoll, procVars>>

\* the token is cancelled while the dispatcher sleeps
DispCancelledAtSleep ==
    /\ dpc = "sleep" /\ cancel
    /\ Drain(containers, tasks)
    /\ UNCHANGED <<cancel, storeVars, cleanup_timer, sleep_duration, alive, lastPoll,
                   procVars>>

\* the awaited watcher has returned during the final drain
DrainJoined ==
    /\ dpc = "drain"
    /\ Finished(tasks, awaiting)
    /\ tasks' = Reap(tasks, awaiting)
    /\ IF DOMAIN containers = {}
       THEN dpc' = "done" /\ awaiting' = 0 /\ UNCHANGED containers
       ELSE \E id \in DOMAIN containers :
                /\ awaiting' = containers[id]
                /\ containers' = Remove(containers, id)
                /\ UNCHANGED dpc
    /\ UNCHANGED <<cancel, storeVars, cleanup_timer, to_remove, sleep_duration, dtimer,
                   alive, lastPoll, procVars>>

\* main: Ctrl+C is received and the root token is cancelled
Shutdown ==
    /\ main_pc = "ctrl_c"
    /\ ~cancel
    /\ cancel' = TRUE
    /\ main_pc' = "join"
    /\ UNCHANGED <<storeVars, cleanup_timer, dispVars, tasks, serve_pc, cleanup_pc>>

\* ------------------------------------------------------- startup and exit
\* config.json as main finds it: whether it opens, whether it parses, and two of the
\* fields it then holds
ConfigFiles ==
    [opens : BOOLEAN, parses : BOOLEAN,
     docker_images : {<<>>, docker_images},
     docker_socket : {"", "/var/run/docker.sock"}]

\* Config::validate
validate(c) ==
    IF Len(c.docker_images) = 0 THEN "Err"
    ELSE IF c.docker_socket = "" THEN "Err"
    ELSE "Ok"

\* Config::load_from_file
load_from_file(f) ==
    IF ~f.opens THEN "Err"
    ELSE IF ~f.parses THEN "Err"
    ELSE validate(f)

\* main: the configuration is rejected, exit(1)
LoadErr(f) ==
    /\ main_pc = "load"
    /\ load_from_file(f) = "Err"
    /\ main_pc' = "exit1"
    /\ UNCHANGED <<cancel, storeVars, cleanup_timer, dispVars, tasks, serve_pc, cleanup_pc>>

\* main: the configuration is accepted; Metrics::new spawns serve and
\* periodic_cleanup, main spawns the dispatcher and waits for Ctrl+C
LoadOk(f) ==
    /\ main_pc = "load"
    /\ load_from_file(f) = "Ok"
    /\ main_pc' = "ctrl_c"
    /\ serve_pc' = "bind"
    /\ cleanup_pc' = "loop"
    /\ cleanup_timer' = CLEANUP_INTERVAL_SECS
    /\ dpc' = "list"
    /\ UNCHANGED <<cancel, storeVars, containers, to_remove, awaiting, sleep_duration,
                   dtimer, alive, lastPoll, tasks>>

\* Metrics::serve: the listener is bound
BindOk ==
    /\ serve_pc = "bind"
    /\ serve_pc' = "serving"
    /\ UNCHANGED <<cancel, storeVars, cleanup_timer, dispVars, tasks, main_pc, cleanup_pc>>

\* Metrics::serve: bind fails and expect() panics, which ends the serve task alone
BindErr ==
    /\ serve_pc = "bind"
    /\ serve_pc' = "panicked"
    /\ UNCHANGED <<cancel, storeVars, cleanup_timer, dispVars, tasks, main_pc, cleanup_pc>>

\* Metrics::serve: the cancelled branch of its select!
ServeCancelled ==
    /\ serve_pc = "serving" /\ cancel
    /\ serve_pc' = "returned"
    /\ UNCHANGED <<cancel, storeVars, cleanup_timer, dispVars, tasks, main_pc, cleanup_pc>>

\* main: dispatcher.await returns, main returns and the runtime drops the tasks that
\* are left
MainExit ==
    /\ main_pc = "join" /\ dpc = "done"
    /\ main_pc' = "exit0"
    /\ serve_pc' = IF serve_pc \in {"bind", "serving"} THEN "dropped" ELSE serve_pc
    /\ cleanup_pc' = "dropped"
    /\ UNCHANGED <<cancel, storeVars, cleanup_timer, dispVars, tasks>>

\* -------------------------------------------------------------------- time
\* the sleeps that are running
Deadlines ==
    (IF cleanup_pc = "loop" /\ ~cancel THEN {cleanup_timer} ELSE {})
    \cup (IF dpc = "sleep" THEN {dtimer} ELSE {})
    \cup {tasks[n].timer : n \in {m \in DOMAIN tasks : tasks[m].pc = "backoff"}}

NextDeadline ==
    IF Deadlines = {} THEN 1 ELSE CHOOSE d \in Deadlines : \A e \in Deadlines : d <= e

\* d seconds pass: no running sleep is overrun, no spawned task is still waiting
\* for its first poll and no record call is under way
Advance(d) ==
    /\ d >= 1
    /\ \A e \in Deadlines : d <= e
    /\ \A n \in DOMAIN tasks : tasks[n].pc \notin {"start", "recording"}
    /\ cleanup_timer' = IF cleanup_pc = "loop" /\ ~cancel THEN cleanup_timer - d
                        ELSE cleanup_timer
    /\ dtimer' = IF dpc = "sleep" THEN dtimer - d ELSE dtimer
    /\ tasks' = [n \in DOMAIN tasks |->
                    IF tasks[n].pc = "backoff"
                    THEN [tasks[n] EXCEPT !.timer = @ - d, !.since = "past"]
                    ELSE IF tasks[n].pc = "stopped" THEN tasks[n]
                    ELSE [tasks[n] EXCEPT !.since = "past"]]
    /\ domain_last_seen' = [l \in DOMAIN domain_last_seen |->
                                Min(domain_last_seen[l] + d, AgeCap)]
    /\ UNCHANGED <<cancel, domain_requests, made, evicted, dpc, containers, to_remove,
                   awaiting, sleep_duration, alive, lastPoll, procVars>>

\* one second passes
Tick == Advance(1)

\* time passes up to the next sleep that runs out
Skip == Advance(NextDeadline)

\* ----------------------------------------------------------- specifications
RECURSIVE SeqsUpTo(_, _)
SeqsUpTo(S, n) ==
    IF n = 0 THEN {<<>>}
    ELSE SeqsUpTo(S, n - 1) \cup
         {Append(q, x) : q \in {p \in SeqsUpTo(S, n - 1) : Len(p) = n - 1}, x \in S}

\* the state once main has spawned the store's tasks and the dispatcher, the metrics
\* address bound
Init ==
    /\ cancel = FALSE
    /\ domain_requests = Empty
    /\ domain_last_seen = Empty
    /\ cleanup_timer = CLEANUP_INTERVAL_SECS
    /\ dpc = "list"
    /\ containers = Empty
    /\ to_remove = {}
    /\ awaiting = 0
    /\ sleep_duration = POLL_SECS
    /\ dtimer = 0
    /\ alive = {}
    /\ tasks = Empty
    /\ lastPoll = "none"
    /\ made = [l \in Labels |-> 0]
    /\ evicted = [l \in Labels |-> "no"]
    /\ main_pc = "ctrl_c"
    /\ serve_pc = "serving"
    /\ cleanup_pc = "loop"

\* two containers never have more than two watcher tasks between them
TaskIds == 1..Cardinality(Ids)

\* what a watcher does while its stream opens and stays open
WatcherRun(n, Lines) ==
    \/ WStart(n)
    \/ WOpenOk(n)
    \/ \E line \in Lines : WDrop(n, line)

\* its record calls
WatcherRecord(n, Lines) ==
    \/ \E line \in Lines : RecordInc(n, line)
    \/ RecordStamp(n)

\* what it does when a stream fails or ends
WatcherRetry(n) ==
    \/ WOpenErr(n)
    \/ WStreamEnd(n)
    \/ WBackoffDone(n)

DispStep(Lists) ==
    \/ \E list \in Lists : DispListOk(list)
    \/ DispListErr
    \/ DispCancelledAtList
    \/ DispJoined
    \/ DispSleepDone
    \/ DispCancelledAtSleep
    \/ DrainJoined

\* the whole program, second by second
Next ==
    \/ \E n \in TaskIds : WatcherRun(n, LogLines)
    \/ \E n \in TaskIds : WatcherRecord(n, LogLines)
    \/ \E n \in TaskIds : WatcherRetry(n)
    \/ \E n \in TaskIds : WCancelled(n)
    \/ DispStep(SeqsUpTo(DockerContainers, MaxList))
    \/ Sweep
    \/ Shutdown
    \/ Tick

Spec == Init /\ [][Next]_vars

\* The specifications below are Spec with the inputs narrowed, each to what its
\* claims are about.

\* SpecD, the reconciler: two containers in every list of up to MaxList entries,
\* discovery calls that fail, the shutdown; streams that stay open and carry no line
\* that is recorded; time from one sleep's end to the next
LifecycleContainers == [id : Ids, image : { <<"foo", "latest">>, <<"bar">> }]

NextD ==
    \/ \E n \in TaskIds : WatcherRun(n, {NoMatchLine, BadStatusLine})
    \/ \E n \in TaskIds : WCancelled(n)
    \/ DispStep(SeqsUpTo(LifecycleContainers, MaxList))
    \/ Sweep
    \/ Shutdown
    \/ Skip

SpecD == Init /\ [][NextD]_vars

\* the scheduler polls a task that was woken: a dispatcher whose token is cancelled
\* or whose awaited watcher has returned, a watcher whose token is cancelled
FairD ==
    /\ SpecD
    /\ WF_vars(DispCancelledAtList)
    /\ WF_vars(DispCancelledAtSleep)
    /\ WF_vars(DispJoined)
    /\ WF_vars(DrainJoined)
    /\ \A n \in TaskIds : WF_vars(WStart(n)) /\ WF_vars(WCancelled(n))

\* SpecS, the store under concurrent writers: two watchers that stay, two labels,
\* time from one sleep's end to the next
StoreLines == {NoMatchLine} \cup {LabelLine(l) : l \in Labels}

TwoContainers ==
    { << [id |-> "c1", image |-> <<"foo">>], [id |-> "c2", image |-> <<"foo", "latest">>] >> }

NextS ==
    \/ \E n \in TaskIds : WatcherRun(n, StoreLines)
    \/ \E n \in TaskIds : WatcherRecord(n, StoreLines)
    \/ \E list \in TwoContainers : DispListOk(list)
    \/ DispSleepDone
    \/ Sweep
    \/ Skip

SpecS == Init /\ [][NextS]_vars

\* SpecT, the sweep's timing: one watcher that stays, one label, second by second
OneLabelLines == {NoMatchLine, LabelLine(<<"example.com", 200>>)}

OneContainer == << [id |-> "c1", image |-> <<"foo", "latest">>] >>

NextT ==
    \/ \E n \in TaskIds : WatcherRun(n, OneLabelLines)
    \/ \E n \in TaskIds : WatcherRecord(n, OneLabelLines)
    \/ DispListOk(OneContainer)
    \/ DispSleepDone
    \/ Sweep
    \/ Tick

SpecT == Init /\ [][NextT]_vars

\* SpecE, eviction: one container that comes and goes, one label, time from one
\* sleep's end to the next
NextE ==
    \/ \E n \in TaskIds : WatcherRun(n, OneLabelLines)
    \/ \E n \in TaskIds : WatcherRecord(n, OneLabelLines)
    \/ \E n \in TaskIds : WCancelled(n)
    \/ \E list \in {<<>>, OneContainer} : DispListOk(list)
    \/ DispJoined
    \/ DispSleepDone
    \/ Sweep
    \/ Skip

SpecE == Init /\ [][NextE]_vars

\* time goes on, a sleep that has run out wakes its task, the scheduler polls a
\* task that was woken and the write lock is granted; nothing is assumed of the
\* streams or of discovery
FairE ==
    /\ SpecE
    /\ WF_vars(Skip)
    /\ WF_vars(Sweep)
    /\ WF_vars(DispSleepDone)
    /\ WF_vars(DispJoined)
    /\ \A n \in TaskIds : WF_vars(WStart(n)) /\ WF_vars(WCancelled(n)) /\ WF_vars(RecordStamp(n))

\* SpecC, one watcher's life: one container, lines of every kind, streams that fail
\* and end, the shutdown; second by second up to the first sweep, where time stops
\* unless the root token is cancelled
WatcherLines == OneLabelLines \cup {BadStatusLine, BadDomainLine}

NextC ==
    \/ \E n \in TaskIds : WatcherRun(n, WatcherLines)
    \/ \E n \in TaskIds : WatcherRecord(n, WatcherLines)
    \/ \E n \in TaskIds : WatcherRetry(n)
    \/ \E n \in TaskIds : WCancelled(n)
    \/ DispListOk(OneContainer)
    \/ DispCancelledAtList
    \/ DispCancelledAtSleep
    \/ DrainJoined
    \/ Shutdown
    \/ Tick

SpecC == Init /\ [][NextC]_vars

\* the scheduler polls a watcher that was spawned or whose token is cancelled;
\* nothing is assumed of its stream
FairC ==
    /\ SpecC
    /\ \A n \in TaskIds : WF_vars(WStart(n)) /\ WF_vars(WCancelled(n))

\* SpecI, the image filter: SpecD with images of a registry that has a port
PortContainers ==
    [id : {"c1"}, image : { <<"foo", "latest">>, <<"registry", "5000/foo">>,
                           <<"registry", "5000/foo", "v1">> }]
    \cup {[id |-> "c2", image |-> <<"foo">>]}

NextI ==
    \/ \E n \in TaskIds : WatcherRun(n, {NoMatchLine, BadStatusLine})
    \/ \E n \in TaskIds : WCancelled(n)
    \/ DispStep(SeqsUpTo(PortContainers, MaxList))
    \/ Sweep
    \/ Shutdown
    \/ Skip

SpecI == Init /\ [][NextI]_vars

\* SpecB, the process from its start to its exit: SpecD's world behind the loading
\* of the configuration and the binding of the metrics address
InitB ==
    /\ cancel = FALSE
    /\ domain_requests = Empty
    /\ domain_last_seen = Empty
    /\ cleanup_timer = CLEANUP_INTERVAL_SECS
    /\ dpc = "none"
    /\ containers = Empty
    /\ to_remove = {}
    /\ awaiting = 0
    /\ sleep_duration = POLL_SECS
    /\ dtimer = 0
    /\ alive = {}
    /\ tasks = Empty
    /\ lastPoll = "none"
    /\ made = [l \in Labels |-> 0]
    /\ evicted = [l \in Labels |-> "no"]
    /\ main_pc = "load"
    /\ serve_pc = "none"
    /\ cleanup_pc = "none"

NextB ==
    \/ \E f \in ConfigFiles : LoadErr(f)
    \/ \E f \in ConfigFiles : LoadOk(f)
    \/ BindOk
    \/ BindErr
    \/ ServeCancelled
    \/ MainExit
    \/ NextD

SpecB == InitB /\ [][NextB]_vars

\* FairD's assumptions, and: the scheduler polls the serve task once the token is
\* cancelled, and main once the dispatcher has returned
FairB ==
    /\ SpecB
    /\ WF_vars(DispCancelledAtList)
    /\ WF_vars(DispCancelledAtSleep)
    /\ WF_vars(DispJoined)
    /\ WF_vars(DrainJoined)
    /\ \A n \in TaskIds : WF_vars(WStart(n)) /\ WF_vars(WCancelled(n))
    /\ WF_vars(BindOk \/ BindErr)
    /\ WF_vars(ServeCancelled)
    /\ WF_vars(MainExit)

\* ------------------------------------------------------------------ claims
InRecord(l) == \E n \in DOMAIN tasks : tasks[n].pc = "recording" /\ tasks[n].label = l

AllReturned == \A l \in Labels : ~InRecord(l)

\* C1: once every record call has returned, the store holds one counter for each
\* label recorded since its last eviction and none for the others, and the counter's
\* value is the number of record calls made for that label since then, however the
\* calls of the two watchers interleave
C1_CountIsCalls ==
    AllReturned =>
        \A l \in Labels :
            /\ made[l] = 0 => l \notin DOMAIN domain_requests
            /\ made[l] > 0 => l \in DOMAIN domain_requests /\ domain_requests[l] = made[l]

C1_Witness ==
    /\ AllReturned
    /\ Cardinality({n \in DOMAIN tasks : tasks[n].pc = "reading"}) = 2
    /\ \A l \in Labels : made[l] = MaxCount /\ Count(l) = MaxCount

\* the ids of a response whose image, tag stripped, is a configured image
MatchingIds(list) ==
    {list[i].id : i \in {j \in 1..Len(list) :
        \E k \in 1..Len(docker_images) : docker_images[k] = StripTag(list[j].image)}}

Tracked == DOMAIN containers

\* C2: the alive set of a successful poll is the set of the response's ids whose image
\* matches, and when the reconciliation of that poll is over the tracked ids are
\* exactly that set, each with a watcher task of its own that was not cancelled, and
\* no task is left of a container that is not tracked
C2_TrackedIsMatching ==
    /\ [][\A list \in SeqsUpTo(LifecycleContainers, MaxList) :
            DispListOk(list) => alive' = MatchingIds(list)]_vars
    /\ [](dpc = "sleep" /\ lastPoll = "ok" =>
            /\ Tracked = alive
            /\ \A id \in Tracked :
                /\ containers[id] \in DOMAIN tasks
                /\ tasks[containers[id]].id = id
                /\ ~tasks[containers[id]].cancel
            /\ \A n \in DOMAIN tasks : \E id \in Tracked : containers[id] = n)

C2_Witness ==
    /\ dpc = "sleep" /\ lastPoll = "ok"
    /\ Cardinality(Tracked) = 1
    /\ \E id \in Tracked : containers[id] = 2

\* C3: no container id ever has two watcher tasks that have not returned, and no
\* task is held by the handles of two ids
C3_OneWatcherPerId ==
    /\ \A id \in Ids :
        Cardinality({n \in DOMAIN tasks : tasks[n].id = id /\ tasks[n].pc # "stopped"}) <= 1
    /\ \A a \in Tracked : \A b \in Tracked : containers[a] = containers[b] => a = b

C3_Witness ==
    /\ dpc = "join"
    /\ Running(awaiting)
    /\ \E n \in DOMAIN tasks : n # awaiting /\ Running(n)

\* C4: a label whose last record call returned no more than the TTL ago (its
\* timestamp is that recent) has a counter
C4_RecordedIsPresent ==
    \A l \in DOMAIN domain_last_seen :
        domain_last_seen[l] <= CLEANUP_ENTRY_TTL_SECS => l \in DOMAIN domain_requests

\* C5: a label that has a counter eventually has none, or a record call for it is
\* in progress
C5_IdleKeyEvicted ==
    \A l \in Labels :
        (l \in DOMAIN domain_requests) ~> (l \notin DOMAIN domain_requests \/ InRecord(l))

\* C6: a watcher whose token is cancelled eventually has returned, and from the
\* cancellation on it starts no new log request
C6_CancelStops ==
    /\ \A n \in TaskIds : (n \in DOMAIN tasks /\ tasks[n].cancel) ~> ~Running(n)
    /\ [][\A n \in TaskIds :
            (n \in DOMAIN tasks /\ tasks[n].cancel /\ n \in DOMAIN tasks')
                => (tasks'[n].pc = "opening" => tasks[n].pc = "opening")]_vars

C6_Witness ==
    \E n \in DOMAIN tasks : tasks[n].cancel /\ tasks[n].pc = "backoff" /\ tasks[n].timer = 0

\* C7: once the root token is cancelled the dispatcher eventually returns, and when it
\* has returned no watcher task is left running
C7_ShutdownDrains ==
    /\ cancel ~> (dpc = "done")
    /\ [](dpc = "done" => \A n \in DOMAIN tasks : tasks[n].pc = "stopped")
    /\ [](dpc = "drain" => \A n \in DOMAIN tasks : tasks[n].cancel)

C7_Witness == dpc = "drain" /\ Running(awaiting) /\ Tracked # {}

\* C8: a failed discovery call changes neither the tracked set nor any watcher task
\* and starts a sleep of 10s; a successful one starts a sleep of 60s; and the next
\* discovery call is made when that sleep has run out
C8_FailureKeepsWatchers ==
    /\ [][(dpc = "list" /\ dpc' = "sleep" /\ lastPoll' = "err") =>
            (containers' = containers /\ tasks' = tasks /\ dtimer' = POLL_RETRY_SECS)]_vars
    /\ [][(dpc # "sleep" /\ dpc' = "sleep" /\ lastPoll' = "ok") => dtimer' = POLL_SECS]_vars
    /\ [][(dpc = "sleep" /\ dpc' = "list") => dtimer = 0]_vars

C8_Witness ==
    dpc = "list" /\ lastPoll = "err" /\ sleep_duration = POLL_SECS /\ Tracked # {}

\* C9: a label a sweep evicted has no counter until a record call for it starts, and
\* that record call leaves its counter at 1
C9_EvictedThenFresh ==
    /\ [](\A l \in Labels : evicted[l] = "yes" => l \notin DOMAIN domain_requests)
    /\ [][\A l \in Labels :
            (evicted[l] = "yes" /\ evicted'[l] = "recorded") =>
                (l \in DOMAIN domain_requests' /\ domain_requests'[l] = 1)]_vars

C9_Witness ==
    \E l \in Labels : evicted[l] = "recorded" /\ Count(l) = 1 /\ l \in DOMAIN domain_last_seen

RecordedOnce(l) ==
    /\ l \in DOMAIN domain_requests
    /\ l \in DOMAIN domain_last_seen
    /\ made[l] = 1
    /\ ~InRecord(l)

\* C10 as stated: a label recorded once is in no snapshot taken 65s after the record
\* call returned
C10_GoneAfter65 ==
    \A l \in Labels : RecordedOnce(l) => domain_last_seen[l] < 65

\* C10, amended: a label recorded once is in no snapshot taken more than 70s (the TTL
\* and one sweep interval) after the record call returned
C10_GoneAfterTtlAndInterval ==
    \A l \in Labels :
        RecordedOnce(l) =>
            domain_last_seen[l] <= CLEANUP_ENTRY_TTL_SECS + CLEANUP_INTERVAL_SECS

C10_Witness ==
    \E l \in Labels : RecordedOnce(l) /\ domain_last_seen[l] >= 65

\* a step in which a record call starts
RecordStarts ==
    \E n \in DOMAIN tasks :
        n \in DOMAIN tasks' /\ tasks[n].pc = "reading" /\ tasks'[n].pc = "recording"

\* a step in which a sweep drops a timestamp
SweepEvicts ==
    /\ DOMAIN domain_last_seen' # DOMAIN domain_last_seen
    /\ DOMAIN domain_last_seen' \subseteq DOMAIN domain_last_seen

\* C11 as stated: a step in which no record call starts leaves the snapshot as it was
C11_SnapshotsAgree == [][~RecordStarts => snapshot' = snapshot]_vars

\* C11, amended: a step in which no record call starts and no sweep evicts leaves the
\* snapshot as it was, and a step in which no record call starts adds no pair to it
C11_SnapshotsAgreeBetweenSweeps ==
    /\ [][(~RecordStarts /\ ~SweepEvicts) => snapshot' = snapshot]_vars
    /\ [][~RecordStarts => snapshot' \subseteq snapshot]_vars

C11_Witness ==
    /\ AllReturned
    /\ \E l \in DOMAIN domain_requests :
        /\ l \in DOMAIN domain_last_seen
        /\ domain_last_seen[l] >= 2 * CLEANUP_INTERVAL_SECS

\* the watcher tasks the dispatcher has cancelled and removed from its map
Removed == {n \in DOMAIN tasks : tasks[n].cancel /\ \A id \in Tracked : containers[id] # n}

\* C12: a watcher the dispatcher has cancelled and removed from its map starts no
\* record call
C12_NoRecordAfterRemoval ==
    [][\A n \in Removed :
            ~(n \in DOMAIN tasks' /\ tasks[n].pc = "reading" /\ tasks'[n].pc = "recording")]_vars

\* C13: when the metrics address cannot be bound the process has exited with status
\* 1, and no watcher runs
C13_FatalStartupExits ==
    serve_pc = "panicked" =>
        /\ main_pc = "exit1"
        /\ \A n \in DOMAIN tasks : ~Running(n)

\* C14: a watcher that has returned was cancelled; a log request that fails and a
\* stream that ends leave a watcher that is not cancelled in the backoff sleep, from
\* which it opens the stream again; a line that does not match, whose status does not
\* fit a u16 or whose domain is not UTF-8 makes no record call
C14_OnlyCancelStops ==
    /\ Extract(NoMatchLine) = NoLabel
    /\ Extract(BadStatusLine) = NoLabel
    /\ Extract(BadDomainLine) = NoLabel
    /\ [](\A n \in DOMAIN tasks : tasks[n].pc = "stopped" => tasks[n].cancel)
    /\ [][\A n \in DOMAIN tasks :
            (/\ n \in DOMAIN tasks'
             /\ ~tasks[n].cancel
             /\ tasks[n].pc \in {"opening", "reading"}
             /\ tasks'[n].pc \notin {"opening", "reading", "recording"})
                => (tasks'[n].pc = "backoff" /\ tasks'[n].timer = BACKOFF_SECS)]_vars
    /\ [][\A n \in DOMAIN tasks :
            (/\ n \in DOMAIN tasks'
             /\ ~tasks[n].cancel
             /\ tasks[n].pc = "backoff"
             /\ tasks'[n].pc # "backoff")
                => (tasks'[n].pc = "opening" /\ tasks[n].timer = 0)]_vars

C14_Witness ==
    \E n \in DOMAIN tasks :
        /\ ~tasks[n].cancel /\ tasks[n].pc = "opening" /\ tasks[n].since = "past"
        /\ DOMAIN domain_requests # {}

\* C15: whenever a watcher starts a log request, the since= timestamp of the request
\* is the present time
C15_StreamsFromNow ==
    [][\A n \in DOMAIN tasks :
            (n \in DOMAIN tasks' /\ tasks[n].pc # "opening" /\ tasks'[n].pc = "opening")
                => tasks'[n].since = "now"]_vars

\* C16: whenever a sweep can run, the sleep of a full interval that the previous
\* sweep started has run out
C16_SweepAfterFullInterval == ENABLED Sweep => cleanup_timer = 0

\* C17: once the root token is cancelled, the serve task and the periodic_cleanup
\* task eventually have returned
C17_StoreTasksReturn ==
    cancel ~> (serve_pc \in {"returned", "panicked"} /\ cleanup_pc = "returned")

\* C18: a step in which the dispatcher removes a container cancels the token of that
\* container's watcher and leaves the root token and every other watcher task as
\* they were
C18_RemovalCancelsOne ==
    [][(dpc' = "join" /\ containers' # containers) =>
            /\ cancel' = cancel
            /\ awaiting' \in DOMAIN tasks' /\ tasks'[awaiting'].cancel
            /\ \A n \in DOMAIN tasks :
                (n \in DOMAIN tasks' /\ n # awaiting') => tasks'[n] = tasks[n]]_vars

C18_Witness ==
    /\ dpc = "join" /\ ~cancel
    /\ awaiting \in DOMAIN tasks /\ tasks[awaiting].cancel
    /\ \E id \in Tracked : tasks[containers[id]].pc = "reading" /\ ~tasks[containers[id]].cancel

\* the segments of the image references above that hold a '/'
PathSegments == {"5000/foo"}

\* an image reference without its tag: the last ':' of a reference starts a tag only
\* when no '/' follows it
WithoutTag(image) ==
    IF Len(image) >= 2 /\ image[Len(image)] \notin PathSegments
    THEN SubSeq(image, 1, Len(image) - 1)
    ELSE image

\* the ids of a response whose image, without its tag, is a configured image
ConfiguredIds(list) ==
    {list[i].id : i \in {j \in 1..Len(list) :
        \E k \in 1..Len(docker_images) : docker_images[k] = WithoutTag(list[j].image)}}

\* C19: the alive set of a successful poll is the set of the response's ids whose
\* image reference, without its tag, is a configured image, and after the
\* reconciliation these are the tracked ids
C19_TrackedIffConfigured ==
    /\ [][\A list \in SeqsUpTo(PortContainers, MaxList) :
            DispListOk(list) => alive' = ConfiguredIds(list)]_vars
    /\ [](dpc = "sleep" /\ lastPoll = "ok" => Tracked = alive)

\* C20: whenever no record call is in progress, the labels that have a counter are the
\* labels that have a timestamp
C20_SameKeys == AllReturned => DOMAIN domain_requests = DOMAIN domain_last_seen

====
